---- MODULE Spec2Model ----
(***************************************************************************)
(* Model of tiktok_trends_csv.py: credential-token normalisation, keyword  *)
(* reading, the per-keyword fetch/filter/cap loop, the orchestrating       *)
(* main_async with its scoped session pool, and the CSV writer.            *)
(*                                                                         *)
(* Text is modelled as sequences of one-character strings, so that strip,  *)
(* lower, lstrip and the regular-expression split act on characters.       *)
(***************************************************************************)
EXTENDS Integers, Sequences, FiniteSets, TLC

VARIABLES
    pc,           \* position of the run
    error,        \* exception that ended (or is ending) the run, "none" if none
    env,          \* process environment: one entry per name of ENV_NAMES
    ms_tokens,    \* main_async: ms_tokens
    pathExists,   \* whether the input path exists
    table,        \* rows of the input CSV, each a sequence of cells
    keywords,     \* main_async: keywords
    min_likes,    \* args.min_likes
    max_results,  \* args.max_per_keyword, passed on as max_results
    session,      \* "none", "entered", "open" or "released"
    kwIdx,        \* number of keywords the for loop has taken
    keyword,      \* fetch_for_keyword: keyword
    normalized,   \* fetch_for_keyword: normalized
    upstream,     \* what hashtag.videos() will yield: [items, ender]
    consumed,     \* number of items pulled from the lazy sequence
    results,      \* fetch_for_keyword: results
    exc,          \* exception leaving fetch_for_keyword, "none" if none
    aggregated,   \* main_async: aggregated
    fetched,      \* history: outcome of each finished fetch_for_keyword call
    output,       \* the output file: <<"absent">> or its rows of cells
    total         \* value returned by write_rows, -1 before

vars == <<pc, error, env, ms_tokens, pathExists, table, keywords, min_likes,
          max_results, session, kwIdx, keyword, normalized, upstream, consumed,
          results, exc, aggregated, fetched, output, total>>

---------------------------------------------------------------------------
(* Bounds of the model.                                                    *)

MaxEnvChars == 3
MaxRows == 3
MaxItems == 4
MaxRunItems == 2
MaxCap == 2

---------------------------------------------------------------------------
(* Characters and strings.                                                 *)

IsSpace(c) == c \in {" ", "\t", "\n", "\r"}

\* the character class [\s,;] of the split pattern
IsTokenSep(c) == IsSpace(c) \/ c \in {",", ";"}

RECURSIVE LStripWs(_)
LStripWs(s) ==
    IF s # <<>> /\ IsSpace(Head(s)) THEN LStripWs(Tail(s)) ELSE s

RECURSIVE RStripWs(_)
RStripWs(s) ==
    IF s # <<>> /\ IsSpace(s[Len(s)]) THEN RStripWs(SubSeq(s, 1, Len(s) - 1)) ELSE s

\* str.strip()
Strip(s) == RStripWs(LStripWs(s))

UPPER == <<"A","B","C","D","E","F","G","H","I","J","K","L","M",
           "N","O","P","Q","R","S","T","U","V","W","X","Y","Z">>
LOWER == <<"a","b","c","d","e","f","g","h","i","j","k","l","m",
           "n","o","p","q","r","s","t","u","v","w","x","y","z">>

LowerChar(c) ==
    IF \E i \in 1..Len(UPPER) : UPPER[i] = c
    THEN LOWER[CHOOSE i \in 1..Len(UPPER) : UPPER[i] = c]
    ELSE c

\* str.lower()
Lower(s) == [i \in 1..Len(s) |-> LowerChar(s[i])]

RECURSIVE LStripHash(_)
\* str.lstrip("#")
LStripHash(s) ==
    IF s # <<>> /\ Head(s) = "#" THEN LStripHash(Tail(s)) ELSE s

RECURSIVE ReSplitFrom(_, _, _, _, _)
ReSplitFrom(s, i, cur, acc, prevSep) ==
    IF i > Len(s) THEN Append(acc, cur)
    ELSE IF IsTokenSep(s[i])
         THEN IF prevSep THEN ReSplitFrom(s, i + 1, cur, acc, TRUE)
              ELSE ReSplitFrom(s, i + 1, <<>>, Append(acc, cur), TRUE)
         ELSE ReSplitFrom(s, i + 1, Append(cur, s[i]), acc, FALSE)

\* re.split(r"[\s,;]+", value): the pieces between maximal runs of separators,
\* with an empty piece where the value starts or ends with a separator
ReSplit(value) == ReSplitFrom(value, 1, <<>>, <<>>, FALSE)

---------------------------------------------------------------------------
(* Credential tokens.                                                      *)

ENV_NAMES == <<"ms_token", "ms_tokens", "MS_TOKEN", "MS_TOKENS">>

\* os.getenv of a name that is not set
Unset == [set |-> FALSE, val |-> <<>>]

\* "not value" for what os.getenv returned
EnvFalsy(v) == ~v.set \/ v.val = <<>>

RECURSIVE ParseFrom(_, _, _, _)
ParseFrom(raw_tokens, i, seen, tokens) ==
    IF i > Len(raw_tokens) THEN tokens
    ELSE LET trimmed == Strip(raw_tokens[i])
         IN  IF trimmed = <<>> \/ trimmed \in seen
             THEN ParseFrom(raw_tokens, i + 1, seen, tokens)
             ELSE ParseFrom(raw_tokens, i + 1, seen \cup {trimmed},
                            Append(tokens, trimmed))

RECURSIVE ParseKeepingDuplicates(_, _, _)
ParseKeepingDuplicates(raw_tokens, i, tokens) ==
    IF i > Len(raw_tokens) THEN tokens
    ELSE LET trimmed == Strip(raw_tokens[i])
         IN  IF trimmed = <<>>
             THEN ParseKeepingDuplicates(raw_tokens, i + 1, tokens)
             ELSE ParseKeepingDuplicates(raw_tokens, i + 1, Append(tokens, trimmed))

\* parse_ms_tokens without the "trimmed in seen" test
parse_ms_tokens_no_seen(raw_tokens) == ParseKeepingDuplicates(raw_tokens, 1, <<>>)

parse_ms_tokens(raw_tokens) == ParseFrom(raw_tokens, 1, {}, <<>>)

RECURSIVE CollectFrom(_, _, _)
CollectFrom(e, i, collected) ==
    IF i > Len(ENV_NAMES) THEN collected
    ELSE IF EnvFalsy(e[i]) THEN CollectFrom(e, i + 1, collected)
         ELSE CollectFrom(e, i + 1, collected \o ReSplit(e[i].val))

\* get_ms_tokens with the pieces of the split taken as tokens, empty ones included
get_ms_tokens_unparsed(e) == CollectFrom(e, 1, <<>>)

\* get_ms_tokens: the token list; the empty list stands for the RuntimeError
get_ms_tokens(e) == parse_ms_tokens(CollectFrom(e, 1, <<>>))

---------------------------------------------------------------------------
(* Keywords.                                                               *)

HEADER_STOPLIST ==
    { <<"k","e","y","w","o","r","d">>,
      <<"p","a","l","a","b","r","a">>,
      <<"h","a","s","h","t","a","g">> }

RECURSIVE ReadFrom(_, _, _)
ReadFrom(rows, i, kws) ==
    IF i > Len(rows) THEN kws
    ELSE LET row == rows[i]
         IN  IF row = <<>> THEN ReadFrom(rows, i + 1, kws)
             ELSE LET kw == Strip(row[1])
                  IN  IF kw = <<>> THEN ReadFrom(rows, i + 1, kws)
                      ELSE IF Lower(kw) \in HEADER_STOPLIST
                           THEN ReadFrom(rows, i + 1, kws)
                           ELSE ReadFrom(rows, i + 1, Append(kws, kw))

RECURSIVE ReadCaseSensitive(_, _, _)
ReadCaseSensitive(rows, i, kws) ==
    IF i > Len(rows) THEN kws
    ELSE LET row == rows[i]
         IN  IF row = <<>> THEN ReadCaseSensitive(rows, i + 1, kws)
             ELSE LET kw == Strip(row[1])
                  IN  IF kw = <<>> \/ kw \in HEADER_STOPLIST
                      THEN ReadCaseSensitive(rows, i + 1, kws)
                      ELSE ReadCaseSensitive(rows, i + 1, Append(kws, kw))

\* read_keywords without the lower() before the stoplist test
read_keywords_case_sensitive(rows) == ReadCaseSensitive(rows, 1, <<>>)

read_keywords(rows) == ReadFrom(rows, 1, <<>>)

---------------------------------------------------------------------------
(* Python values met in the video metadata: None, an int or a str.         *)

None == [k |-> "none", n |-> 0, s |-> <<>>]
IntV(n) == [k |-> "int", n |-> n, s |-> <<>>]
StrV(s) == [k |-> "str", n |-> 0, s |-> s]

\* truth value of a Python value
Falsy(v) == v.k = "none" \/ (v.k = "int" /\ v.n = 0) \/ (v.k = "str" /\ v.s = <<>>)

DIGITS == <<"0","1","2","3","4","5","6","7","8","9">>

IsDigit(c) == \E i \in 1..Len(DIGITS) : DIGITS[i] = c
DigitVal(c) == (CHOOSE i \in 1..Len(DIGITS) : DIGITS[i] = c) - 1

RECURSIVE ParseDec(_, _)
ParseDec(s, acc) ==
    IF s = <<>> THEN acc ELSE ParseDec(Tail(s), 10 * acc + DigitVal(Head(s)))

\* whether int(v) raises ValueError/TypeError
IntRaises(v) ==
    CASE v.k = "int" -> FALSE
      [] v.k = "none" -> TRUE
      [] OTHER -> LET t == Strip(v.s)
                  IN  t = <<>> \/ \E i \in 1..Len(t) : ~IsDigit(t[i])

\* int(v) where it does not raise
IntValue(v) == IF v.k = "int" THEN v.n ELSE ParseDec(Strip(v.s), 0)

RECURSIVE DecStr(_)
DecStr(n) ==
    IF n < 10 THEN <<DIGITS[n + 1]>>
    ELSE DecStr(n \div 10) \o <<DIGITS[(n % 10) + 1]>>

\* str(n) for an int
IntStr(n) == IF n < 0 THEN <<"-">> \o DecStr(0 - n) ELSE DecStr(n)

\* A dict is a sequence of [key, val] entries in insertion order.
HasKey(d, key) == \E i \in 1..Len(d) : d[i].key = key

\* dict.get(key, default)
DictGet(d, key, default) ==
    IF HasKey(d, key) THEN d[CHOOSE i \in 1..Len(d) : d[i].key = key].val
    ELSE default

\* list(dict.keys())
DictKeys(d) == [i \in 1..Len(d) |-> d[i].key]

---------------------------------------------------------------------------
(* Video metadata yielded by hashtag.videos().                             *)

ItemKinds == {"low", "high", "numstr", "nulldigg", "nostats", "baddigg"}

\* the diggCount entry of each kind of item
DiggOf(kind) ==
    CASE kind = "low" -> IntV(500)
      [] kind = "high" -> IntV(1500)
      [] kind = "numstr" -> StrV(<<"2","0","0","0">>)
      [] kind = "nulldigg" -> None
      [] OTHER -> StrV(<<"a","b","c">>)

\* video.as_dict and video.url of the p-th item of the sequence; hasStats and
\* hasAuthor say whether data holds a (non-None) "stats" / "author" dict
MkItem(kind, p) ==
    [ data |-> IF kind = "nostats"
               THEN << [key |-> "id", val |-> StrV(<<"v">> \o IntStr(p))] >>
               ELSE << [key |-> "id", val |-> StrV(<<"v">> \o IntStr(p))],
                       [key |-> "desc", val |-> StrV(<<"d">>)] >>,
      hasStats |-> kind # "nostats",
      stats |-> IF kind = "nostats" THEN <<>>
                ELSE << [key |-> "diggCount", val |-> DiggOf(kind)],
                        [key |-> "commentCount", val |-> IntV(7)] >>,
      hasAuthor |-> kind # "nostats",
      author |-> IF kind = "nostats" THEN <<>>
                 ELSE << [key |-> "uniqueId", val |-> StrV(<<"u">>)] >>,
      url |-> StrV(<<"h">> \o IntStr(p)) ]

\* data.get(name) or {}  for the nested dicts stats and author
NestedOrEmpty(has, d) == IF has /\ d # <<>> THEN d ELSE <<>>

\* stats.get("diggCount", 0) or 0
LikeRaw(stats) ==
    LET v == DictGet(stats, "diggCount", IntV(0))
    IN  IF Falsy(v) THEN IntV(0) ELSE v

FIELDNAMES ==
    << "keyword", "video_id", "description", "like_count", "comment_count",
       "share_count", "play_count", "author_uniqueId", "author_nickname", "url" >>

\* the row dict built for an accepted video
RowOf(kw, item, like_count) ==
    LET stats == NestedOrEmpty(item.hasStats, item.stats)
        author == NestedOrEmpty(item.hasAuthor, item.author)
    IN  << [key |-> "keyword", val |-> StrV(kw)],
           [key |-> "video_id", val |-> DictGet(item.data, "id", None)],
           [key |-> "description", val |-> DictGet(item.data, "desc", None)],
           [key |-> "like_count", val |-> IntV(like_count)],
           [key |-> "comment_count", val |-> DictGet(stats, "commentCount", None)],
           [key |-> "share_count", val |-> DictGet(stats, "shareCount", None)],
           [key |-> "play_count", val |-> DictGet(stats, "playCount", None)],
           [key |-> "author_uniqueId", val |-> DictGet(author, "uniqueId", None)],
           [key |-> "author_nickname", val |-> DictGet(author, "nickname", None)],
           [key |-> "url", val |-> item.url] >>

\* the comparison inverted
BelowThresholdInverted(like_count, threshold) == like_count > threshold

\* like_count < min_likes
BelowThreshold(like_count, threshold) == like_count < threshold

\* len(results) >= max_results
CapReached(res, cap) == Len(res) >= cap

---------------------------------------------------------------------------
(* The CSV writer.                                                         *)

\* the text csv.writer puts in a cell: "" for None, str(v) otherwise
CsvCell(v) ==
    CASE v.k = "none" -> <<>>
      [] v.k = "int" -> IntStr(v.n)
      [] OTHER -> v.s

\* the header taken from the first row alone, with no declared fallback
FieldnamesFromFirstRow(rows_list) ==
    IF rows_list # <<>> THEN DictKeys(rows_list[1]) ELSE <<>>

\* write_rows: the header's columns
Fieldnames(rows_list) ==
    IF rows_list # <<>> THEN DictKeys(rows_list[1]) ELSE FIELDNAMES

\* DictWriter (extrasaction="raise"): a key outside fieldnames raises ValueError
HasExtras(fieldnames, row) ==
    \E i \in 1..Len(row) : \A j \in 1..Len(fieldnames) : fieldnames[j] # row[i].key

\* DictWriter.writerow: one cell per column, restval "" for a missing key
CsvRow(fieldnames, row) ==
    [j \in 1..Len(fieldnames) |-> CsvCell(DictGet(row, fieldnames[j], StrV(<<>>)))]

\* number of leading rows written before one raises (all of them if none does)
Writable(fieldnames, rows_list) ==
    IF \E i \in 1..Len(rows_list) : HasExtras(fieldnames, rows_list[i])
    THEN (CHOOSE i \in 1..Len(rows_list) :
             /\ HasExtras(fieldnames, rows_list[i])
             /\ \A h \in 1..(i - 1) : ~HasExtras(fieldnames, rows_list[h])) - 1
    ELSE Len(rows_list)

\* the lines of the file write_rows leaves: the header, then the data rows
FileOf(rows_list) ==
    LET fieldnames == Fieldnames(rows_list)
    IN  <<fieldnames>> \o
        [i \in 1..Writable(fieldnames, rows_list) |-> CsvRow(fieldnames, rows_list[i])]

---------------------------------------------------------------------------
(* Inputs.                                                                 *)

TokenAlphabet == {"a", "b", ",", ";", " "}

EnvValues(n) ==
    IF n = 0 THEN {Unset, [set |-> TRUE, val |-> <<>>]}
    ELSE {[set |-> TRUE, val |-> s] : s \in [1..n -> TokenAlphabet]}

\* how n characters at most can be spread over the four names
EnvLens(n) == {m \in [1..4 -> 0..n] : m[1] + m[2] + m[3] + m[4] <= n}

EnvOf(a, b) == << [set |-> TRUE, val |-> a], Unset, [set |-> TRUE, val |-> b], Unset >>

RunEnvs ==
    { <<Unset, Unset, Unset, Unset>>,
      EnvOf(<<",">>, <<>>),
      EnvOf(<<"a">>, <<>>),
      EnvOf(<<"a", ",", "b">>, <<"a">>) }

FirstCells ==
    { <<>>, <<" ">>, <<"#", "c">>, <<" ", "d", " ">>, <<"d">>,
      <<"K","e","y","w","o","r","d">>, <<"H","A","S","H","T","A","G"," ">>,
      <<"p","a","l","a","b","r","a">>, <<"k","e","y","w","o","r","d","s">> }

TableRows ==
    {<<>>} \cup {<<c>> : c \in FirstCells}
           \cup {<<c, <<"x">>>> : c \in {<<"d">>, <<>>}}

Tables(n) == UNION {[1..m -> TableRows] : m \in 0..n}

RunTables ==
    { <<>>,
      << <<<<"K","e","y","w","o","r","d">>>> >>,
      << <<<<"#", "c">>>> >>,
      << <<<<"k","e","y","w","o","r","d">>>>, <<<<"#", "c">>>>, <<<<" ", "d", " ">>>> >> }

MinLikesSet == {0, 1000}

Upstreams(n, kinds, enders) ==
    {[items |-> s, ender |-> e] : s \in UNION {[1..m -> kinds] : m \in 0..n}, e \in enders}

RunKinds == {"low", "high", "numstr", "baddigg"}

NoUpstream == [items |-> <<>>, ender |-> "end"]
NoFile == [exists |-> FALSE, lines |-> <<>>]

---------------------------------------------------------------------------
(* Initial states.                                                         *)

\* everything fetch_for_keyword and the keyword loop use, before they run
Idle ==
    /\ kwIdx = 0
    /\ keyword = <<>>
    /\ normalized = <<>>
    /\ upstream = NoUpstream
    /\ consumed = 0
    /\ results = <<>>
    /\ exc = "none"
    /\ aggregated = <<>>
    /\ fetched = <<>>
    /\ output = NoFile
    /\ total = -1

\* main_async is entered
Init ==
    /\ pc = "start"
    /\ error = "none"
    /\ env \in RunEnvs
    /\ ms_tokens = <<>>
    /\ pathExists \in BOOLEAN
    /\ table \in IF pathExists THEN RunTables ELSE {<<>>}
    /\ keywords = <<>>
    /\ min_likes \in MinLikesSet
    /\ max_results \in 0..MaxCap
    /\ session = "none"
    /\ Idle

\* get_ms_tokens is about to read the environment
InitTokens ==
    /\ pc = "start"
    /\ error = "none"
    /\ \E l \in EnvLens(MaxEnvChars) :
          \E a \in EnvValues(l[1]), b \in EnvValues(l[2]),
             c \in EnvValues(l[3]), d \in EnvValues(l[4]) : env = <<a, b, c, d>>
    /\ ms_tokens = <<>>
    /\ pathExists = TRUE
    /\ table = <<>>
    /\ keywords = <<>>
    /\ min_likes = 1000
    /\ max_results = MaxCap
    /\ session = "none"
    /\ Idle

\* read_keywords_safe is about to read the input table
InitKeywords ==
    /\ pc = "tokens_ok"
    /\ error = "none"
    /\ env = EnvOf(<<"a">>, <<>>)
    /\ ms_tokens = get_ms_tokens(env)
    /\ pathExists \in BOOLEAN
    /\ table \in IF pathExists THEN Tables(MaxRows) ELSE {<<>>}
    /\ keywords = <<>>
    /\ min_likes = 1000
    /\ max_results = MaxCap
    /\ session = "none"
    /\ Idle

\* fetch_for_keyword is called on an open session pool
InitFetch ==
    /\ pc = "fetch_call"
    /\ error = "none"
    /\ env = EnvOf(<<"a">>, <<>>)
    /\ ms_tokens = get_ms_tokens(env)
    /\ pathExists = TRUE
    /\ table = << <<<<"#", "c">>>> >>
    /\ keywords = read_keywords(table)
    /\ min_likes \in MinLikesSet
    /\ max_results \in 0..MaxCap
    /\ session = "open"
    /\ kwIdx = 1
    /\ keyword = keywords[1]
    /\ normalized = <<>>
    /\ upstream \in Upstreams(MaxItems, ItemKinds, {"end", "error"})
    /\ consumed = 0
    /\ results = <<>>
    /\ exc = "none"
    /\ aggregated = <<>>
    /\ fetched = <<>>
    /\ output = NoFile
    /\ total = -1

---------------------------------------------------------------------------
(* fetch_for_keyword.                                                      *)

runVars == <<error, env, ms_tokens, pathExists, table, keywords, min_likes,
             max_results, session, kwIdx, aggregated, fetched, output, total>>

\* entry: normalized = keyword.lstrip("#"); results = []; hashtag = api.hashtag(...)
FetchStart ==
    /\ pc = "fetch_call"
    /\ normalized' = LStripHash(keyword)
    /\ results' = <<>>
    /\ consumed' = 0
    /\ exc' = "none"
    /\ pc' = "fetch_iter"
    /\ UNCHANGED <<keyword, upstream>>
    /\ UNCHANGED runVars

\* one turn of the async for: the sequence yields its next video and the body runs
FetchNext ==
    /\ pc = "fetch_iter"
    /\ consumed < Len(upstream.items)
    /\ consumed' = consumed + 1
    /\ LET video == MkItem(upstream.items[consumed + 1], consumed + 1)
           stats == NestedOrEmpty(video.hasStats, video.stats)
           raw == LikeRaw(stats)
       IN  IF IntRaises(raw)
           THEN /\ exc' = "ValueError"
                /\ pc' = "fetch_raised"
                /\ UNCHANGED results
           ELSE LET like_count == IntValue(raw)
                IN  IF BelowThreshold(like_count, min_likes)
                    THEN UNCHANGED <<results, exc, pc>>
                    ELSE /\ results' = Append(results, RowOf(keyword, video, like_count))
                         /\ pc' = IF CapReached(results', max_results)
                                  THEN "fetch_returned" ELSE "fetch_iter"
                         /\ UNCHANGED exc
    /\ UNCHANGED <<keyword, normalized, upstream>>
    /\ UNCHANGED runVars

\* the sequence has no further video: it ends, or the upstream call raises
FetchExhausted ==
    /\ pc = "fetch_iter"
    /\ consumed = Len(upstream.items)
    /\ IF upstream.ender = "end"
       THEN /\ pc' = "fetch_returned"
            /\ UNCHANGED exc
       ELSE /\ pc' = "fetch_raised"
            /\ exc' = IF upstream.ender = "error" THEN "Exception" ELSE "BaseException"
    /\ UNCHANGED <<keyword, normalized, upstream, consumed, results>>
    /\ UNCHANGED runVars

FetchStep == FetchStart \/ FetchNext \/ FetchExhausted

---------------------------------------------------------------------------
(* main_async.                                                             *)

loopVars == <<kwIdx, keyword, normalized, upstream, consumed, results, exc,
              aggregated, fetched>>

\* ms_tokens = ensure_ms_tokens()
EnsureMsTokens ==
    /\ pc = "start"
    /\ LET tokens == get_ms_tokens(env)
       IN  IF tokens = <<>>
           THEN /\ error' = "RuntimeError"
                /\ pc' = "aborted"
                /\ UNCHANGED ms_tokens
           ELSE /\ ms_tokens' = tokens
                /\ pc' = "tokens_ok"
                /\ UNCHANGED error
    /\ UNCHANGED <<env, pathExists, table, keywords, min_likes, max_results,
                   session, output, total>>
    /\ UNCHANGED loopVars

\* keywords = read_keywords_safe(input_path)
ReadKeywordsSafe ==
    /\ pc = "tokens_ok"
    /\ IF ~pathExists
       THEN /\ error' = "FileNotFoundError"
            /\ pc' = "aborted"
            /\ UNCHANGED keywords
       ELSE LET kws == read_keywords(table)
            IN  IF kws = <<>>
                THEN /\ error' = "RuntimeError"
                     /\ pc' = "aborted"
                     /\ UNCHANGED keywords
                ELSE /\ keywords' = kws
                     /\ pc' = "keywords_ok"
                     /\ UNCHANGED error
    /\ UNCHANGED <<env, ms_tokens, pathExists, table, min_likes, max_results,
                   session, output, total>>
    /\ UNCHANGED loopVars

\* async with TikTokApi() as api: the scope is entered
EnterSessionScope ==
    /\ pc = "keywords_ok"
    /\ session' = "entered"
    /\ pc' = "create_sessions"
    /\ UNCHANGED <<error, env, ms_tokens, pathExists, table, keywords, min_likes,
                   max_results, output, total>>
    /\ UNCHANGED loopVars

\* await api.create_sessions(...): the sessions open, or the call raises
CreateSessions ==
    /\ pc = "create_sessions"
    /\ \E ok \in BOOLEAN :
          IF ok
          THEN /\ session' = "open"
               /\ aggregated' = <<>>
               /\ pc' = "loop"
               /\ UNCHANGED error
          ELSE /\ error' = "SessionError"
               /\ pc' = "exit_scope"
               /\ UNCHANGED <<session, aggregated>>
    /\ UNCHANGED <<env, ms_tokens, pathExists, table, keywords, min_likes,
                   max_results, output, total>>
    /\ UNCHANGED <<kwIdx, keyword, normalized, upstream, consumed, results, exc, fetched>>

\* for keyword in keywords: the next keyword is taken and fetch_for_keyword called
LoopNext ==
    /\ pc = "loop"
    /\ kwIdx < Len(keywords)
    /\ kwIdx' = kwIdx + 1
    /\ keyword' = keywords[kwIdx + 1]
    /\ upstream' \in Upstreams(MaxRunItems, RunKinds, {"end", "error", "interrupt"})
    /\ pc' = "fetch_call"
    /\ UNCHANGED <<normalized, consumed, results, exc, aggregated, fetched>>
    /\ UNCHANGED <<error, env, ms_tokens, pathExists, table, keywords, min_likes,
                   max_results, session, output, total>>

\* what an except-Exception clause does with an exception of fetch_for_keyword
Caught(e) == e # "BaseException"

\* the rows accepted before the exception kept
ExtendedKeepingPartial(agg, rows, raised) == agg \o rows

\* what the keyword leaves in the aggregate after its fetch returned or was caught
Extended(agg, rows, raised) == IF raised THEN agg ELSE agg \o rows

\* rows = await fetch_for_keyword(...) returned: aggregated.extend(rows)
LoopExtend ==
    /\ pc = "fetch_returned"
    /\ aggregated' = Extended(aggregated, results, FALSE)
    /\ fetched' = Append(fetched, [keyword |-> keyword, raised |-> FALSE, rows |-> results])
    /\ pc' = "loop"
    /\ UNCHANGED <<kwIdx, keyword, normalized, upstream, consumed, results, exc>>
    /\ UNCHANGED <<error, env, ms_tokens, pathExists, table, keywords, min_likes,
                   max_results, session, output, total>>

\* fetch_for_keyword raised: except Exception logs and continues, anything else
\* leaves the loop
LoopExcept ==
    /\ pc = "fetch_raised"
    /\ IF Caught(exc)
       THEN /\ aggregated' = Extended(aggregated, results, TRUE)
            /\ fetched' = Append(fetched,
                                 [keyword |-> keyword, raised |-> TRUE, rows |-> results])
            /\ pc' = "loop"
            /\ UNCHANGED error
       ELSE /\ error' = exc
            /\ pc' = "exit_scope"
            /\ UNCHANGED <<aggregated, fetched>>
    /\ UNCHANGED <<kwIdx, keyword, normalized, upstream, consumed, results, exc>>
    /\ UNCHANGED <<env, ms_tokens, pathExists, table, keywords, min_likes,
                   max_results, session, output, total>>

\* the for loop has taken every keyword
LoopDone ==
    /\ pc = "loop"
    /\ kwIdx = Len(keywords)
    /\ pc' = "exit_scope"
    /\ UNCHANGED <<error, env, ms_tokens, pathExists, table, keywords, min_likes,
                   max_results, session, output, total>>
    /\ UNCHANGED loopVars

\* the pool closed by a call after the loop, which an exception skips
ScopeExitOnSuccessOnly(s, e) == IF e = "none" THEN "released" ELSE s

\* state of the session pool once the async with block is left with pending error e
ScopeExit(s, e) == "released"

\* the async with block is left (normally or by an exception): __aexit__ runs
ExitSessionScope ==
    /\ pc = "exit_scope"
    /\ session' = ScopeExit(session, error)
    /\ pc' = IF error = "none" THEN "write" ELSE "aborted"
    /\ UNCHANGED <<error, env, ms_tokens, pathExists, table, keywords, min_likes,
                   max_results, output, total>>
    /\ UNCHANGED loopVars

\* total = write_rows(output_path, aggregated)
WriteRows ==
    /\ pc = "write"
    /\ output' = [exists |-> TRUE, lines |-> FileOf(aggregated)]
    /\ IF Writable(Fieldnames(aggregated), aggregated) = Len(aggregated)
       THEN /\ total' = Len(aggregated)
            /\ pc' = "done"
            /\ UNCHANGED error
       ELSE /\ error' = "ValueError"
            /\ pc' = "aborted"
            /\ UNCHANGED total
    /\ UNCHANGED <<env, ms_tokens, pathExists, table, keywords, min_likes,
                   max_results, session>>
    /\ UNCHANGED loopVars

Next ==
    \/ EnsureMsTokens
    \/ ReadKeywordsSafe
    \/ EnterSessionScope
    \/ CreateSessions
    \/ LoopNext
    \/ FetchStart
    \/ FetchNext
    \/ FetchExhausted
    \/ LoopExtend
    \/ LoopExcept
    \/ LoopDone
    \/ ExitSessionScope
    \/ WriteRows

Spec == Init /\ [][Next]_vars

SpecTokens == InitTokens /\ [][EnsureMsTokens]_vars

SpecKeywords == InitKeywords /\ [][ReadKeywordsSafe]_vars

SpecFetch == InitFetch /\ [][FetchStep]_vars

---------------------------------------------------------------------------
(* Properties of fetch_for_keyword, stated on the whole upstream sequence. *)

\* the like count of a video as the threshold rule reads it: the number it
\* carries, zero when it carries none or something that is no number
LikeOfKind(kind) ==
    CASE kind = "low" -> 500
      [] kind = "high" -> 1500
      [] kind = "numstr" -> 2000
      [] OTHER -> 0

\* positions of the upstream candidates that meet the threshold
MeetingPos == {p \in 1..Len(upstream.items) : LikeOfKind(upstream.items[p]) >= min_likes}

\* position of the n-th candidate that meets the threshold
NthMeeting(n) ==
    CHOOSE p \in MeetingPos : Cardinality({q \in MeetingPos : q <= p}) = n

Min(a, b) == IF a <= b THEN a ELSE b

\* the record expected for the candidate at position p
RecordAt(p) == RowOf(keyword, MkItem(upstream.items[p], p), LikeOfKind(upstream.items[p]))

\* C1: a call that returns, returns exactly min(K, C) records, and they are the
\* first min(K, C) threshold-meeting candidates in upstream order, for every
\* cap C >= 0 (K = number of candidates meeting the threshold).
C1_ResultIsFirstMinKC ==
    pc = "fetch_returned" =>
        LET m == Min(Cardinality(MeetingPos), max_results)
        IN  /\ Len(results) = m
            /\ \A i \in 1..m : results[i] = RecordAt(NthMeeting(i))

\* C2: fetch_for_keyword raises only when the upstream sequence itself cannot
\* be iterated, never because of what an item holds: an exception leaves it
\* only after every item was pulled and the upstream call then failed.
C2_RaisesOnlyOnUpstreamFailure ==
    pc = "fetch_raised" =>
        /\ consumed = Len(upstream.items)
        /\ upstream.ender # "end"
        /\ exc # "ValueError"

\* position of the C-th candidate meeting the threshold (0 for C = 0)
CapPosition == IF max_results = 0 THEN 0 ELSE NthMeeting(max_results)

\* C4: when at least C candidates meet the threshold, no item after the C-th
\* of them is ever pulled, and a call that returns has pulled exactly up to it.
C4_StopsAtCthCandidate ==
    Cardinality(MeetingPos) >= max_results =>
        /\ consumed <= CapPosition
        /\ pc = "fetch_returned" => consumed = CapPosition

---------------------------------------------------------------------------
(* Properties of a run of main_async.                                      *)

LikeCount(row) == DictGet(row, "like_count", None)

RowsMeetThreshold(rows) ==
    \A i \in 1..Len(rows) : LikeCount(rows[i]).k = "int" /\ LikeCount(rows[i]).n >= min_likes

\* every record the current call accepted comes from a video it pulled and
\* stores the like count that video carries
ResultsStoreComparedValue ==
    pc # "fetch_call" =>
    \A i \in 1..Len(results) :
        \E p \in 1..consumed :
            /\ DictGet(results[i], "video_id", None) = StrV(<<"v">> \o IntStr(p))
            /\ LikeCount(results[i]) = IntV(LikeOfKind(upstream.items[p]))

\* every data line of the written file shows a like count of at least T
OutputMeetsThreshold ==
    output.exists =>
        \A l \in 2..Len(output.lines) :
            /\ output.lines[1][4] = "like_count"
            /\ ParseDec(output.lines[l][4], 0) >= min_likes

\* C5: no record in a fetch result, in the aggregate or in the written output
\* has a like count below the threshold T, and the stored like count is the
\* value that was compared against T.
C5_ThresholdSafety ==
    /\ RowsMeetThreshold(results)
    /\ RowsMeetThreshold(aggregated)
    /\ ResultsStoreComparedValue
    /\ OutputMeetsThreshold

\* a video below the threshold was discarded, another accepted and written
C5_Witness ==
    /\ pc = "done"
    /\ min_likes = 1000
    /\ Len(output.lines) >= 2
    /\ results # <<>>
    /\ consumed > Len(results)

RECURSIVE ConcatReturned(_)
\* the rows of the calls that returned, one keyword after the other
ConcatReturned(log) ==
    IF log = <<>> THEN <<>>
    ELSE IF Head(log).raised THEN ConcatReturned(Tail(log))
         ELSE Head(log).rows \o ConcatReturned(Tail(log))

\* C3: the aggregate is the concatenation, in keyword order, of the results of
\* the fetches that did not raise; a keyword whose fetch raised adds nothing,
\* later keywords are still processed, and a caught failure never ends the run.
C3_FailureIsolation ==
    /\ aggregated = ConcatReturned(fetched)
    /\ Len(fetched) <= kwIdx
    /\ \A i \in 1..Len(fetched) : fetched[i].keyword = keywords[i]
    /\ (pc = "loop" /\ kwIdx > 0) =>
           /\ Len(fetched) = kwIdx
           /\ fetched[kwIdx].rows = results
           /\ fetched[kwIdx].raised = (exc # "none")
    /\ pc \in {"write", "done"} => Len(fetched) = Len(keywords)
    /\ error \notin {"Exception", "ValueError"}
    /\ (pc = "done" /\ \A i \in 1..Len(fetched) : fetched[i].raised) => output.lines = <<FIELDNAMES>>

\* a keyword failed after accepting a video, and a later keyword still added rows
C3_Witness ==
    /\ pc = "done"
    /\ \E i, j \in 1..Len(fetched) :
          /\ i < j
          /\ fetched[i].raised /\ fetched[i].rows # <<>>
          /\ ~fetched[j].raised /\ fetched[j].rows # <<>>
          /\ aggregated = fetched[j].rows

\* the environment holds no token: every character of every set name is a separator
NoTokenConfigured ==
    \A c \in 1..Len(ENV_NAMES) :
        env[c].set => \A i \in 1..Len(env[c].val) : IsTokenSep(env[c].val[i])

EqualsIgnoringCase(a, b) ==
    Len(a) = Len(b) /\ \A i \in 1..Len(a) : LowerChar(a[i]) = LowerChar(b[i])

\* rows of the table whose first cell is a keyword
Survivors ==
    {i \in 1..Len(table) :
        /\ table[i] # <<>>
        /\ Strip(table[i][1]) # <<>>
        /\ \A w \in HEADER_STOPLIST : ~EqualsIgnoringCase(Strip(table[i][1]), w)}

\* C6: with no token, a missing input path or no surviving keyword, the run
\* aborts with an error before any session is opened, any fetch issued or any
\* output written; a session is opened only after tokens and keywords were
\* both resolved non-empty.
C6_PreflightBeforeNetwork ==
    /\ (NoTokenConfigured \/ ~pathExists \/ Survivors = {}) =>
           /\ pc \in {"start", "tokens_ok", "aborted"}
           /\ session = "none"
           /\ kwIdx = 0 /\ consumed = 0
           /\ ~output.exists
           /\ pc = "aborted" => error \in {"RuntimeError", "FileNotFoundError"}
    /\ session # "none" => ms_tokens # <<>> /\ keywords # <<>>

\* tokens were found, the path exists, and the run aborted for want of keywords
C6_Witness ==
    /\ pc = "aborted"
    /\ error = "RuntimeError"
    /\ ms_tokens # <<>>
    /\ pathExists
    /\ table # <<>>
    /\ session = "none"

\* C7: once the session scope was entered, every way out of it tears the
\* sessions down: no terminated run leaves the pool open, fetches happen only
\* while the pool is open, and a released pool is never used again.
C7_ScopedRelease ==
    /\ pc \in {"write", "done", "aborted"} => session \in {"none", "released"}
    /\ pc \in {"fetch_call", "fetch_iter", "fetch_returned", "fetch_raised", "loop"}
           => session = "open"
    /\ session = "released" => pc \in {"write", "done", "aborted"}

\* an exception that is not caught per keyword left the block, and the pool was released
C7_Witness ==
    /\ pc = "aborted"
    /\ error = "BaseException"
    /\ session = "released"
    /\ aggregated # <<>>

\* C8: the written file is one header line holding the ten declared columns in
\* declared order, then one line per record in aggregate order, and write_rows
\* returns the number of records; this also for the empty aggregate.
C8_OutputShape ==
    /\ pc = "done" =>
           /\ output.exists
           /\ Len(output.lines) = 1 + Len(aggregated)
           /\ output.lines[1] = FIELDNAMES
           /\ \A i \in 1..Len(aggregated) :
                  output.lines[i + 1] =
                      [j \in 1..Len(FIELDNAMES) |->
                          CsvCell(DictGet(aggregated[i], FIELDNAMES[j], None))]
           /\ total = Len(aggregated)
    /\ output.exists => pc = "done"

\* records of two keywords were written
C8_Witness ==
    /\ pc = "done"
    /\ Len(output.lines) >= 3
    /\ \E i, j \in 1..Len(aggregated) :
          DictGet(aggregated[i], "keyword", None) # DictGet(aggregated[j], "keyword", None)

---------------------------------------------------------------------------
(* Properties of get_ms_tokens.                                            *)

\* <<c, i, j>>: characters i..j of channel c are a maximal run of non-separators
TokenRuns ==
    {r \in (1..Len(ENV_NAMES)) \X (1..MaxEnvChars + 1) \X (1..MaxEnvChars + 1) :
        LET v == env[r[1]].val
        IN  /\ env[r[1]].set
            /\ r[2] <= r[3] /\ r[3] <= Len(v)
            /\ \A k \in r[2]..r[3] : ~IsTokenSep(v[k])
            /\ r[2] = 1 \/ IsTokenSep(v[r[2] - 1])
            /\ r[3] = Len(v) \/ IsTokenSep(v[r[3] + 1])}

RunText(r) == SubSeq(env[r[1]].val, r[2], r[3])

\* where a token first appears: channel order, then position in the channel
FirstSeen(t) ==
    LET at == {r[1] * (MaxEnvChars + 2) + r[2] : r \in {q \in TokenRuns : RunText(q) = t}}
    IN  CHOOSE x \in at : \A y \in at : x <= y

\* C9: get_ms_tokens returns the distinct, trimmed, non-empty tokens of the
\* channels in order of first appearance, and fails with the configuration
\* error exactly when no channel holds a non-empty token.
C9_TokenSetNormalized ==
    /\ pc = "tokens_ok" =>
           /\ ms_tokens # <<>>
           /\ {ms_tokens[i] : i \in 1..Len(ms_tokens)} = {RunText(r) : r \in TokenRuns}
           /\ \A i, j \in 1..Len(ms_tokens) :
                  i < j => FirstSeen(ms_tokens[i]) < FirstSeen(ms_tokens[j])
           /\ \A i \in 1..Len(ms_tokens) :
                  ms_tokens[i] # <<>> /\ Strip(ms_tokens[i]) = ms_tokens[i]
    /\ pc = "aborted" => TokenRuns = {} /\ error = "RuntimeError"

\* a token given in two channels was kept once, after the token that came first
C9_Witness ==
    /\ pc = "tokens_ok"
    /\ Len(ms_tokens) = 2
    /\ \E q, r \in TokenRuns :
          /\ q[1] < r[1]
          /\ RunText(q) = RunText(r)
          /\ RunText(q) = ms_tokens[2]

---------------------------------------------------------------------------
(* Properties of read_keywords_safe.                                       *)

\* C10: read_keywords returns, in row order, the trimmed first cell of exactly
\* the rows whose first cell is non-empty after trimming and is no stoplist
\* word in any letter case; read_keywords_safe fails with the configuration
\* error exactly when no row survives and with not-found when the path is missing.
C10_KeywordFiltering ==
    /\ pc = "keywords_ok" =>
           /\ pathExists
           /\ Survivors # {}
           /\ Len(keywords) = Cardinality(Survivors)
           /\ \A i \in Survivors :
                  keywords[Cardinality({h \in Survivors : h <= i})] = Strip(table[i][1])
    /\ pc = "aborted" =>
           /\ ~pathExists => error = "FileNotFoundError"
           /\ pathExists => error = "RuntimeError" /\ Survivors = {}

\* a header row in capitals was dropped, a padded cell trimmed, two keywords kept
C10_Witness ==
    /\ pc = "keywords_ok"
    /\ Len(keywords) = 2
    /\ \E i \in 1..Len(table) :
          table[i] # <<>> /\ table[i][1] = <<"H","A","S","H","T","A","G"," ">>
    /\ \E i \in 1..Len(table) :
          table[i] # <<>> /\ table[i][1] = <<" ", "d", " ">>

====
